---- MODULE Spec2Model ----
(***************************************************************************)
(* Model of distancematrix/calculator.py: the Calculator that pulls        *)
(* columns or diagonals of a distance matrix from generators and pushes    *)
(* them to consumers.                                                      *)
(*                                                                         *)
(* Array positions are 0-based in the source; sequences here are 1-based,  *)
(* so position p of an array is element p+1 of the sequence modelling it.  *)
(***************************************************************************)
EXTENDS Integers, Sequences, FiniteSets, TLC

\* ------------------------------------------------------------------ bounds
MaxSeriesLen == 4
MaxGenerators == 2
MaxConsumers == 2

\* --------------------------------------------------------------- constants
\* np.inf and np.nan, as integers outside the range of the modelled distances
Inf == 9999
NaN == 0 - 1
\* CPython: the table of a set of at most four elements has 8 slots
SetTableSize == 8

\* ------------------------------------------------------------------ inputs
\* the subsequence lengths, series lengths and query lengths tried
Ms == {2}
SeriesLens == {1, MaxSeriesLen}
QueryLens == {0, 3}
SeriesDims == {1}
QueryDims == {1, 2}
None == [type |-> "none", num |-> 0, den |-> 1]
PyInt(i) == [type |-> "int", num |-> i, den |-> 1]
PyFloat(a, b) == [type |-> "float", num |-> a, den |-> b]
PyOther == [type |-> "str", num |-> 0, den |-> 1]
BufferArgs == {None, PyInt(0 - 1)}
StartArgs == {None, PyFloat(0, 2), PyFloat(1, 2), PyOther}
UptoArgs == {PyFloat(1, 2), PyFloat(2, 2), PyFloat(3, 2)}
PartialArgs == {PyFloat(1, 2), PyFloat(2, 2), PyInt(7), PyOther}
InputDims == {0, 1}
\* the arguments _ratio_to_int is tried on by itself: fractions in hundredths
\* and a half, ints, and values of other types; and the maxima
RatioArgs ==
    {PyFloat(a, 100) : a \in {0 - 1, 0, 7, 28, 34, 50, 100, 101}}
    \cup {PyFloat(1, 2), PyFloat(3, 2)}
    \cup {PyInt(i) : i \in {0 - 2, 0, 7, 1000}}
    \cup {PyOther, None}
Maxima == {0 - 3, 0, 1, 3, 10, 25, 100}
SubscriptionLists == {<<1, 0 - 2, 0>>}

VARIABLES
    pc,
    self_join, m, n_dim, num_series_subseq, num_query_subseq,
    trivial_match_buffer, diagonal_calc_order, diagonal_values_total,
    generators, consumers,
    last_column_calculated,
    diagonal_calc_list_next_index, diagonal_values_calculated,
    current_column, upto, values_needed, generators_needed_ids,
    column_dists, diag_dists, diagonal, diagonal_length, gi, ci, mirrored,
    log, call, run

shapeVars == <<self_join, m, n_dim, num_series_subseq, num_query_subseq,
               trivial_match_buffer, diagonal_calc_order, diagonal_values_total>>
regVars == <<generators, consumers>>
colVars == <<last_column_calculated>>
diagVars == <<diagonal_calc_list_next_index, diagonal_values_calculated>>
frameVars == <<current_column, upto, values_needed, generators_needed_ids,
               column_dists, diag_dists, diagonal, diagonal_length, gi, ci, mirrored>>
histVars == <<log, call, run>>
vars == <<pc, shapeVars, regVars, colVars, diagVars, frameVars, histVars>>

\* ----------------------------------------------------------------- helpers
Max2(a, b) == IF a >= b THEN a ELSE b
Min2(a, b) == IF a <= b THEN a ELSE b

\* math.ceil(a / b) for b > 0
CeilDiv(a, b) == 0 - ((0 - a) \div b)

\* np.arange(lo, hi): the integers lo, lo+1, ..., hi-1 (empty when hi <= lo)
Arange(lo, hi) == [i \in 1..Max2(hi - lo, 0) |-> lo + i - 1]

\* random.Random(0).random(): the first draws of the generator seeded with 0,
\* in millionths (truncated); draw t is used by the t-th swap of the shuffle
Random0 == <<844421, 757954, 420571, 258916, 511274, 404934, 783798, 303312>>

Swap(x, a, b) == [x EXCEPT ![a] = x[b], ![b] = x[a]]

\* random.shuffle(x, random): for i in reversed(range(1, len(x))):
\*     j = int(random() * (i + 1)); x[i], x[j] = x[j], x[i]
\* i is the 0-based position still to be placed, t the number of the draw
RECURSIVE ShuffleFrom(_, _, _)
ShuffleFrom(x, i, t) ==
    IF i < 1 THEN x
    ELSE LET j == (Random0[t] * (i + 1)) \div 1000000
         IN ShuffleFrom(Swap(x, i + 1, j + 1), i - 1, t + 1)

Shuffle(x) == ShuffleFrom(x, Len(x) - 1, 1)

\* line 70: the diagonals of two series, np.arange(-num_query_subseq + 1,
\* num_series_subseq)
TwoSeriesOffsets(nqs, nss) == Arange(0 - nqs + 1, nss)

\* the diagonals from the last masked one on
SelfJoinOffsetsFromBuffer(tmb, nss) == Arange(tmb, nss)

\* line 73: the diagonals of a self-join, np.arange(trivial_match_buffer + 1,
\* num_series_subseq)
SelfJoinOffsets(tmb, nss) == Arange(tmb + 1, nss)

\* the order read from its end
NextDiagonalFromEnd(order, index) == order[Len(order) - index]

\* line 184: self._diagonal_calc_order[self._diagonal_calc_list_next_index]
NextDiagonal(order, index) == order[index + 1]

\* distancematrix.util.diag_length(h, w, diagonal): number of cells of the
\* diagonal of an h x w matrix; 0 is the main diagonal, positive is to the right
diag_length(h, w, d) ==
    IF d >= 0 THEN Max2(Min2(h, w - d), 0) ELSE Max2(Min2(w, h + d), 0)

\* The (num, den, maximum) for which the double-precision product
\* (num / den) * maximum lies above the integer num * maximum / den, among
\* den in {1, 2, 4, 10, 100}, 0 <= num <= den and -100 <= maximum <= 100
\* (IEEE 754, round to nearest: 0.28 * 25 is 7.000000000000001)
ProductAboveInteger ==
    {<<7, 10, 0 - 90>>, <<7, 100, 100>>, <<14, 100, 50>>, <<14, 100, 100>>,
     <<28, 100, 25>>, <<28, 100, 50>>, <<28, 100, 75>>, <<28, 100, 100>>,
     <<29, 100, 0 - 100>>, <<55, 100, 100>>, <<56, 100, 25>>, <<56, 100, 50>>,
     <<56, 100, 75>>, <<56, 100, 100>>, <<57, 100, 0 - 100>>, <<58, 100, 0 - 100>>,
     <<58, 100, 0 - 50>>, <<68, 100, 75>>, <<70, 100, 0 - 90>>}

\* line 216: ceil(ratio_or_result * maximum) for the float num / den: the
\* ceiling of the product as the double-precision multiplication rounds it
CeilOfProduct(num, den, maximum) ==
    CeilDiv(num * maximum, den)
    + (IF <<num, den, maximum>> \in ProductAboveInteger THEN 1 ELSE 0)

\* _ratio_to_int without the test of the range of a fraction
ratio_to_int_unchecked(r, maximum) ==
    IF r.type = "float"
    THEN [ok |-> TRUE, err |-> "", v |-> CeilOfProduct(r.num, r.den, maximum)]
    ELSE IF r.type = "int"
         THEN [ok |-> TRUE, err |-> "", v |-> r.num]
         ELSE [ok |-> FALSE, err |-> "RuntimeError", v |-> 0]

\* _ratio_to_int(ratio_or_result, maximum)
ratio_to_int(r, maximum) ==
    IF r.type = "float"
    THEN IF r.num < 0 \/ r.num > r.den
         THEN [ok |-> FALSE, err |-> "ValueError", v |-> 0]
         ELSE [ok |-> TRUE, err |-> "", v |-> CeilOfProduct(r.num, r.den, maximum)]
    ELSE IF r.type = "int"
         THEN [ok |-> TRUE, err |-> "", v |-> r.num]
         ELSE [ok |-> FALSE, err |-> "RuntimeError", v |-> 0]

\* hash() of a small Python int: the int itself, except hash(-1) = -2
PyHash(i) == IF i = 0 - 1 THEN 0 - 2 ELSE i

\* slot of a small int in the hash table of a set with no collision
SetSlot(i) == PyHash(i) % SetTableSize

RECURSIVE SortBySlot(_)
SortBySlot(S) ==
    IF S = {} THEN <<>>
    ELSE LET x == CHOOSE y \in S : \A z \in S : SetSlot(y) <= SetSlot(z)
         IN <<x>> \o SortBySlot(S \ {x})

\* the ids without the set: once for each consumer that names them
NeededIdsOfEach(cons) ==
    LET ids == SortBySlot(UNION {{cons[c][k] : k \in DOMAIN cons[c]} : c \in DOMAIN cons})
    IN IF Len(cons) >= 2 THEN ids \o ids ELSE ids

\* list(set(id for id_list in self._consumers.values() for id in id_list)):
\* a set is iterated in the order of the slots of its hash table
NeededIds(cons) ==
    SortBySlot(UNION {{cons[c][k] : k \in DOMAIN cons[c]} : c \in DOMAIN cons})

\* list[i] and array[i, :] for a Python int i: negative positions count from
\* the end; the result is the 0-based position, or "IndexError"
InRange(i, n) == 0 - n <= i /\ i < n
PyIndex(i, n) == IF i < 0 THEN i + n ELSE i

\* the distance between subsequence col of the series and subsequence row of
\* the query, as generator g (0-based registry position) computes it
Dist(g, col, row) == 100 * (g + 1) + 10 * (col + 2) + row

\* generator.calc_column(column): the num_query_subseq distances of a column
calc_column(g, col) == [r \in 1..Max2(num_query_subseq, 0) |-> Dist(g, col, r - 1)]

\* generator.calc_diagonal(diagonal): the distances along a diagonal
calc_diagonal(g, d) ==
    [i \in 1..diag_length(num_query_subseq, num_series_subseq, d) |->
        IF d >= 0 THEN Dist(g, i - 1 + d, i - 1) ELSE Dist(g, i - 1, i - 1 - d)]

\* np.full((rows, cols), np.nan)
NanMatrix(rows, cols) == [g \in 1..rows |-> [r \in 1..cols |-> NaN]]

\* a[s:e] for s >= 0 on an axis of length n: the 0-based positions selected
\* (a negative e counts from the end, both ends are clipped to the axis)
SlicePositions(s, e, n) ==
    LET e1 == IF e < 0 THEN Max2(e + n, 0) ELSE Min2(e, n)
    IN {p \in 0..(n - 1) : s <= p /\ p < e1}

\* column_dists[:, s:e] = np.inf
MaskWindow(buf, s, e) ==
    [g \in DOMAIN buf |->
        [r \in DOMAIN buf[g] |->
            IF (r - 1) \in SlicePositions(s, e, Len(buf[g])) THEN Inf ELSE buf[g][r]]]

\* the window without its part left of the column
MaskColumnRightOnly(buf, col, b) ==
    IF b >= 0 THEN MaskWindow(buf, col, col + b + 1) ELSE buf

\* lines 143-146: the trivial-match window of a column
MaskColumn(buf, col, b) ==
    IF b >= 0 THEN MaskWindow(buf, Max2(0, col - b), col + b + 1) ELSE buf

\* resuming at the mark itself
ResumeColumnAtMark(last) == last

\* line 126: the column a call without start begins at
ResumeColumn(last) == last + 1

\* a mark that never moves, and a mark one past the column completed
AdvanceMarkNever(col, last) == last
AdvanceMarkPast(col, last) == Max2(col + 1, last)

\* a mark set to the column just completed
AdvanceMarkToColumn(col, last) == col

\* line 151: max(current_column, self._last_column_calculated)
AdvanceMark(col, last) == Max2(col, last)

\* a second delivery under the same offset
SameOffset(d) == d

\* line 196: the offset of the mirrored delivery of a self-join
MirroredOffset(d) == 0 - d

\* the rows of the buffer in their order, whatever the ids
SelectFirstRows(buf, ids) == [k \in DOMAIN ids |-> buf[((k - 1) % Len(buf)) + 1]]

\* buf[generator_ids, :]: a copy of the rows named by generator_ids, in order
SelectRows(buf, ids) == [k \in DOMAIN ids |-> buf[PyIndex(ids[k], Len(buf)) + 1]]

\* the rows at their full length
WholeRows(buf, n) == buf

\* buf[:, :n]
Prefix(buf, n) == [g \in DOMAIN buf |-> SubSeq(buf[g], 1, n)]

\* an assignment that leaves the masked positions of the row as they are
SetRowUnlessMasked(buf, id, values) ==
    [buf EXCEPT ![PyIndex(id, Len(buf)) + 1] =
        [r \in DOMAIN @ |-> IF r <= Len(values) /\ @[r] # Inf THEN values[r] ELSE @[r]]]

\* buf[id, :n] = values
SetRowPrefix(buf, id, values) ==
    [buf EXCEPT ![PyIndex(id, Len(buf)) + 1] =
        [r \in DOMAIN @ |-> IF r <= Len(values) THEN values[r] ELSE @[r]]]

\* ----------------------------------------------------------------- history
\* History variables, read by nothing the calculator does; they tell of the
\* calls made since the last registration of a generator or a consumer:
\*   log            what the current (or last) call asked of its collaborators
\*   call           the current (or last) call: its arguments as given, the
\*                  bounds they resolved to, the state it found, how it ended
\*   run            the current run: consecutive calls of one traversal that
\*                  all returned or were cancelled, where each call after the
\*                  first either omitted start (mode "resumed") or gave the
\*                  upto of the call before it as its start (mode "chained");
\*                  what the calls delivered and the units they completed
Event(op, who, unit, arg, val) ==
    [op |-> op, who |-> who, unit |-> unit, arg |-> arg, val |-> val]

NoRetry == [retry |-> FALSE, unit |-> 0, omitted |-> FALSE]

NoCall ==
    [kind |-> "none", start |-> None, upto |-> None, outcome |-> "none", unit |-> 0,
     from |-> 0, to |-> 0, retries |-> NoRetry]

\* retries: when the call before this one was a call of the same traversal
\* that a collaborator made fail, the unit it failed in and whether it had
\* been given no start
Call(kind, start, end, from, to, outcome) ==
    [kind |-> kind, start |-> start, upto |-> end, outcome |-> outcome, unit |-> 0,
     from |-> from, to |-> to,
     retries |-> IF call.kind = kind /\ call.outcome = "CollaboratorError"
                 THEN [retry |-> TRUE, unit |-> call.unit, omitted |-> call.start = None]
                 ELSE NoRetry]

NoRun ==
    [kind |-> "none", first |-> 0, to |-> 0, omitted |-> FALSE, virgin |-> FALSE,
     mode |-> "single", cancelled |-> FALSE, deliveries |-> <<>>, units |-> <<>>]

\* omitted: the call was not given a start; virgin: no column was completed
\* (no diagonal was computed) before the run
NewRun(kind, first, to, omitted) ==
    [kind |-> kind, first |-> first, to |-> to, omitted |-> omitted,
     virgin |-> IF kind = "columns" THEN last_column_calculated = 0 - 1
                ELSE diagonal_calc_list_next_index = 0,
     mode |-> "single", cancelled |-> FALSE, deliveries |-> <<>>, units |-> <<>>]

\* the run of a call of the given traversal that is to work on the units from
\* `first` up to the bound `to`
EnterRun(kind, first, to, omitted) ==
    IF run.kind = kind /\ omitted /\ run.mode # "chained"
    THEN [run EXCEPT !.mode = "resumed", !.to = Max2(@, to)]
    ELSE IF /\ run.kind = kind /\ ~omitted /\ run.mode # "resumed"
            /\ call.outcome = "returned" /\ call.to = first /\ first <= to
         THEN [run EXCEPT !.mode = "chained", !.to = to]
         ELSE NewRun(kind, first, to, omitted)

Delivered(who, arg, val) ==
    [run EXCEPT !.deliveries = Append(@, [who |-> who, arg |-> arg, val |-> val])]

Completed(unit) == [run EXCEPT !.units = Append(@, unit)]

Cancelled == [run EXCEPT !.cancelled = TRUE]

\* the running call ends (returns, is cancelled or raises) while working on
\* unit u
Leave(outcome, u) ==
    /\ pc' = "idle"
    /\ run' = IF outcome = "returned" THEN run
              ELSE IF outcome = "interrupted" THEN Cancelled
              ELSE NoRun
    /\ call' = [call EXCEPT !.outcome = outcome, !.unit = u]
    /\ current_column' = 0
    /\ upto' = 0
    /\ values_needed' = 0
    /\ generators_needed_ids' = <<>>
    /\ column_dists' = <<>>
    /\ diag_dists' = <<>>
    /\ diagonal' = 0
    /\ diagonal_length' = 0
    /\ gi' = 0
    /\ ci' = 0
    /\ mirrored' = FALSE

\* the call raises before its loop: it is recorded, nothing else changes
RaiseAtEntry(kind, start, end, err) ==
    /\ call' = Call(kind, start, end, 0, 0, err)
    /\ log' = <<>>
    /\ run' = NoRun
    /\ UNCHANGED <<pc, colVars, diagVars, frameVars>>

\* -------------------------------------------------------------------- Init
Init ==
    /\ pc = "new"
    /\ self_join = FALSE
    /\ m = 0
    /\ n_dim = 0
    /\ num_series_subseq = 0
    /\ num_query_subseq = 0
    /\ trivial_match_buffer = 0 - 1
    /\ diagonal_calc_order = <<>>
    /\ diagonal_values_total = 0
    /\ generators = <<>>
    /\ consumers = <<>>
    /\ last_column_calculated = 0 - 1
    /\ diagonal_calc_list_next_index = 0
    /\ diagonal_values_calculated = 0
    /\ current_column = 0
    /\ upto = 0
    /\ values_needed = 0
    /\ generators_needed_ids = <<>>
    /\ column_dists = <<>>
    /\ diag_dists = <<>>
    /\ diagonal = 0
    /\ diagonal_length = 0
    /\ gi = 0
    /\ ci = 0
    /\ mirrored = FALSE
    /\ log = <<>>
    /\ call = NoCall
    /\ run = NoRun

\* ---------------------------------------------------------------- __init__
\* the trivial_match_buffer of a self-join: the argument, or m // 2
BufferOf(mm, buf) == IF buf = None THEN mm \div 2 ELSE buf.num

\* __init__ raises: dimensions differ, or the buffer is out of range
ConstructRaises(mm, slen, sdims, qlen, qdims, buf) ==
    \/ qlen # None /\ sdims # qdims
    \/ qlen = None /\ BufferOf(mm, buf) \notin (0 - 1)..(slen - mm + 1 - 1)

\* Calculator(m, series, query, trivial_match_buffer)
Construct(mm, slen, sdims, qlen, qdims, buf) ==
    /\ pc = "new"
    /\ IF ConstructRaises(mm, slen, sdims, qlen, qdims, buf)
       THEN /\ pc' = "ctor_failed"
            /\ UNCHANGED shapeVars
       ELSE LET nss == slen - mm + 1
                nqs == IF qlen = None THEN nss ELSE qlen.num - mm + 1
                tmb == IF qlen = None THEN BufferOf(mm, buf) ELSE 0 - 1
                temp == nss - tmb - 1
            IN /\ pc' = "idle"
               /\ self_join' = (qlen = None)
               /\ m' = mm
               /\ n_dim' = sdims
               /\ num_series_subseq' = nss
               /\ num_query_subseq' = nqs
               /\ trivial_match_buffer' = tmb
               /\ diagonal_calc_order' =
                    IF qlen # None THEN Shuffle(TwoSeriesOffsets(nqs, nss))
                    ELSE Shuffle(SelfJoinOffsets(tmb, nss))
               /\ diagonal_values_total' =
                    IF qlen # None THEN nqs * nss ELSE (temp * (temp + 1)) \div 2
    /\ UNCHANGED <<regVars, colVars, diagVars, frameVars, histVars>>

\* ------------------------------------------------------------ registration
\* add_generator(input_dim, generator); generators and consumers are
\* registered before the first calculation call, or between calls as long as
\* no consumer is registered; the history starts anew at a registration
add_generator(input_dim) ==
    /\ pc = "idle"
    /\ call.kind = "none" \/ Len(consumers) = 0
    /\ Len(generators) < MaxGenerators
    /\ IF input_dim < 0 \/ input_dim >= n_dim
       THEN UNCHANGED <<generators, histVars>>
       ELSE /\ generators' = Append(generators, input_dim)
            /\ log' = <<>>
            /\ call' = NoCall
            /\ run' = NoRun
    /\ UNCHANGED <<pc, shapeVars, consumers, colVars, diagVars, frameVars>>

\* add_consumer(generator_ids, consumer)
add_consumer(generator_ids) ==
    /\ pc = "idle"
    /\ call.kind = "none" \/ Len(consumers) = 0
    /\ Len(consumers) < MaxConsumers
    /\ consumers' = Append(consumers, generator_ids)
    /\ log' = <<>>
    /\ call' = NoCall
    /\ run' = NoRun
    /\ UNCHANGED <<pc, shapeVars, generators, colVars, diagVars, frameVars>>

\* --------------------------------------------------------- calculate_columns
\* lines 125-135: calculate_columns(start, upto) up to the loop
calculate_columns(start, end) ==
    /\ pc = "idle"
    /\ LET first == IF start = None THEN PyInt(ResumeColumn(last_column_calculated))
                    ELSE start
           s == ratio_to_int(first, num_series_subseq)
           u == ratio_to_int(end, num_series_subseq)
       IN IF ~s.ok THEN RaiseAtEntry("columns", start, end, s.err)
          ELSE IF ~u.ok THEN RaiseAtEntry("columns", start, end, u.err)
          ELSE IF num_query_subseq < 0
               THEN RaiseAtEntry("columns", start, end, "NegativeDimensions")
          ELSE /\ pc' = "col_test"
               /\ call' = Call("columns", start, end, s.v, u.v, "running")
               /\ log' = <<>>
               /\ run' = EnterRun("columns", s.v, u.v, start = None)
               /\ current_column' = s.v
               /\ upto' = u.v
               /\ generators_needed_ids' = NeededIds(consumers)
               /\ column_dists' = NanMatrix(Len(generators), num_query_subseq)
               /\ UNCHANGED <<values_needed, diag_dists, diagonal, diagonal_length,
                              gi, ci, mirrored, colVars, diagVars>>
    /\ UNCHANGED <<shapeVars, regVars>>

\* line 138: while current_column < upto and not is_interrupted()
column_loop_test ==
    /\ pc = "col_test"
    /\ IF current_column < upto
       THEN \E interrupted \in BOOLEAN :
              /\ log' = Append(log, Event("is_interrupted", 0, current_column,
                                          IF interrupted THEN 1 ELSE 0, <<>>))
              /\ IF interrupted
                 THEN Leave("interrupted", current_column)
                 ELSE /\ pc' = "col_gen"
                      /\ gi' = 1
                      /\ UNCHANGED <<call, run, current_column, upto, values_needed,
                                     generators_needed_ids, column_dists, diag_dists,
                                     diagonal, diagonal_length, ci, mirrored>>
       ELSE /\ Leave("returned", current_column)
            /\ UNCHANGED log
    /\ UNCHANGED <<shapeVars, regVars, colVars, diagVars>>

\* lines 139-141: column_dists[generator_id, :] = generator.calc_column(column)
column_query_generator ==
    /\ pc = "col_gen"
    /\ gi <= Len(generators_needed_ids)
    /\ LET id == generators_needed_ids[gi]
           g == PyIndex(id, Len(generators))
       IN IF ~InRange(id, Len(generators))
          THEN /\ Leave("IndexError", current_column)
               /\ UNCHANGED log
          ELSE \E raises \in BOOLEAN :
                 /\ log' = Append(log, Event("calc_column", g, current_column, current_column,
                                  IF raises THEN <<>> ELSE <<calc_column(g, current_column)>>))
                 /\ IF raises
                    THEN Leave("CollaboratorError", current_column)
                    ELSE /\ column_dists' =
                              SetRowPrefix(column_dists, id, calc_column(g, current_column))
                         /\ gi' = gi + 1
                         /\ UNCHANGED <<pc, call, current_column, upto, values_needed,
                                        generators_needed_ids, diag_dists, diagonal,
                                        diagonal_length, ci, mirrored, run>>
    /\ UNCHANGED <<shapeVars, regVars, colVars, diagVars>>

\* lines 143-146: mask the trivial matches of the assembled column
column_mask ==
    /\ pc = "col_gen"
    /\ gi > Len(generators_needed_ids)
    /\ column_dists' = MaskColumn(column_dists, current_column, trivial_match_buffer)
    /\ pc' = "col_cons"
    /\ ci' = 1
    /\ UNCHANGED <<shapeVars, regVars, colVars, diagVars, histVars, current_column, upto,
                   values_needed, generators_needed_ids, diag_dists, diagonal,
                   diagonal_length, gi, mirrored>>

\* lines 148-149: consumer.process_column(column, column_dists[generator_ids, :])
column_notify_consumer ==
    /\ pc = "col_cons"
    /\ ci <= Len(consumers)
    /\ \E raises \in BOOLEAN :
         LET values == SelectRows(column_dists, consumers[ci])
         IN /\ log' = Append(log, Event("process_column", ci - 1, current_column,
                                        current_column, values))
            /\ IF raises
               THEN Leave("CollaboratorError", current_column)
               ELSE /\ ci' = ci + 1
                    /\ run' = Delivered(ci - 1, current_column, values)
                    /\ UNCHANGED <<pc, call, current_column, upto, values_needed,
                                   generators_needed_ids, column_dists, diag_dists, diagonal,
                                   diagonal_length, gi, mirrored>>
    /\ UNCHANGED <<shapeVars, regVars, colVars, diagVars>>

\* a column completed that also rewinds the traversal by diagonals
column_advance_rewinding ==
    /\ pc = "col_cons"
    /\ ci > Len(consumers)
    /\ last_column_calculated' = AdvanceMark(current_column, last_column_calculated)
    /\ current_column' = current_column + 1
    /\ pc' = "col_test"
    /\ run' = Completed(current_column)
    /\ diagonal_calc_list_next_index' = 0
    /\ diagonal_values_calculated' = 0
    /\ UNCHANGED <<shapeVars, regVars, log, call, upto, values_needed,
                   generators_needed_ids, column_dists, diag_dists, diagonal,
                   diagonal_length, gi, ci, mirrored>>

\* lines 151-152: advance the rightmost column calculated and the column
column_advance ==
    /\ pc = "col_cons"
    /\ ci > Len(consumers)
    /\ last_column_calculated' = AdvanceMark(current_column, last_column_calculated)
    /\ current_column' = current_column + 1
    /\ pc' = "col_test"
    /\ run' = Completed(current_column)
    /\ UNCHANGED <<shapeVars, regVars, diagVars, log, call, upto, values_needed,
                   generators_needed_ids, column_dists, diag_dists, diagonal,
                   diagonal_length, gi, ci, mirrored>>

\* ------------------------------------------------------- calculate_diagonals
\* lines 172-177: calculate_diagonals(partial) up to the loop
calculate_diagonals(partial) ==
    /\ pc = "idle"
    /\ LET max_diagonal_length == Min2(num_query_subseq, num_series_subseq)
           v == ratio_to_int(partial, diagonal_values_total)
       IN IF max_diagonal_length < 0
          THEN RaiseAtEntry("diagonals", None, partial, "NegativeDimensions")
          ELSE IF ~v.ok THEN RaiseAtEntry("diagonals", None, partial, v.err)
          ELSE /\ pc' = "diag_test"
               /\ call' = Call("diagonals", None, partial,
                               diagonal_calc_list_next_index, v.v, "running")
               /\ log' = <<>>
               /\ run' = EnterRun("diagonals", diagonal_calc_list_next_index, v.v, TRUE)
               /\ values_needed' = v.v
               /\ generators_needed_ids' = NeededIds(consumers)
               /\ diag_dists' = NanMatrix(Len(generators), max_diagonal_length)
               /\ UNCHANGED <<current_column, upto, column_dists, diagonal, diagonal_length,
                              gi, ci, mirrored, colVars, diagVars>>
    /\ UNCHANGED <<shapeVars, regVars>>

\* lines 180-186: the loop test, then the next diagonal of the order
diagonal_loop_test ==
    /\ pc = "diag_test"
    /\ IF diagonal_values_calculated < values_needed
       THEN \E interrupted \in BOOLEAN :
              /\ log' = Append(log, Event("is_interrupted", 0, diagonal_calc_list_next_index,
                                          IF interrupted THEN 1 ELSE 0, <<>>))
              /\ IF interrupted
                 THEN Leave("interrupted", diagonal_calc_list_next_index)
                 ELSE IF diagonal_calc_list_next_index >= Len(diagonal_calc_order)
                 THEN Leave("IndexError", diagonal_calc_list_next_index)
                 ELSE /\ pc' = "diag_unit"
                      /\ diagonal' =
                            NextDiagonal(diagonal_calc_order, diagonal_calc_list_next_index)
                      /\ diagonal_length' =
                            diag_length(num_query_subseq, num_series_subseq,
                                NextDiagonal(diagonal_calc_order,
                                             diagonal_calc_list_next_index))
                      /\ gi' = 1
                      /\ ci' = 1
                      /\ mirrored' = FALSE
                      /\ UNCHANGED <<call, run, current_column, upto, values_needed,
                                     generators_needed_ids, column_dists, diag_dists>>
       ELSE /\ Leave("returned", diagonal_calc_list_next_index)
            /\ UNCHANGED log
    /\ UNCHANGED <<shapeVars, regVars, colVars, diagVars>>

\* lines 188-190: diagonal_values[generator_id, :] = generator.calc_diagonal(diagonal)
diagonal_query_generator ==
    /\ pc = "diag_unit"
    /\ gi <= Len(generators_needed_ids)
    /\ LET id == generators_needed_ids[gi]
           g == PyIndex(id, Len(generators))
       IN IF ~InRange(id, Len(generators))
          THEN /\ Leave("IndexError", diagonal_calc_list_next_index)
               /\ UNCHANGED log
          ELSE \E raises \in BOOLEAN :
                 /\ log' = Append(log, Event("calc_diagonal", g, diagonal_calc_list_next_index,
                                  diagonal,
                                  IF raises THEN <<>> ELSE <<calc_diagonal(g, diagonal)>>))
                 /\ IF raises
                    THEN Leave("CollaboratorError", diagonal_calc_list_next_index)
                    ELSE /\ diag_dists' =
                              SetRowPrefix(diag_dists, id, calc_diagonal(g, diagonal))
                         /\ gi' = gi + 1
                         /\ UNCHANGED <<pc, call, current_column, upto, values_needed,
                                        generators_needed_ids, column_dists, diagonal,
                                        diagonal_length, ci, mirrored, run>>
    /\ UNCHANGED <<shapeVars, regVars, colVars, diagVars>>

\* lines 192-196: consumer.process_diagonal(diagonal, values), and in a
\* self-join consumer.process_diagonal(-diagonal, values) right after it
diagonal_notify_consumer ==
    /\ pc = "diag_unit"
    /\ gi > Len(generators_needed_ids)
    /\ ci <= Len(consumers)
    /\ \E raises \in BOOLEAN :
         LET values == SelectRows(Prefix(diag_dists, diagonal_length), consumers[ci])
             offset == IF mirrored THEN MirroredOffset(diagonal) ELSE diagonal
         IN /\ log' = Append(log, Event("process_diagonal", ci - 1,
                                        diagonal_calc_list_next_index, offset, values))
            /\ IF raises
               THEN Leave("CollaboratorError", diagonal_calc_list_next_index)
               ELSE /\ IF self_join /\ ~mirrored
                       THEN mirrored' = TRUE /\ ci' = ci
                       ELSE mirrored' = FALSE /\ ci' = ci + 1
                    /\ run' = Delivered(ci - 1, offset, values)
                    /\ UNCHANGED <<pc, call, current_column, upto, values_needed,
                                   generators_needed_ids, column_dists, diag_dists, diagonal,
                                   diagonal_length, gi>>
    /\ UNCHANGED <<shapeVars, regVars, colVars, diagVars>>

\* lines 198-199: count the values of the diagonal and move to the next one
diagonal_advance ==
    /\ pc = "diag_unit"
    /\ gi > Len(generators_needed_ids)
    /\ ci > Len(consumers)
    /\ diagonal_values_calculated' = diagonal_values_calculated + diagonal_length
    /\ diagonal_calc_list_next_index' = diagonal_calc_list_next_index + 1
    /\ pc' = "diag_test"
    /\ run' = Completed(diagonal)
    /\ UNCHANGED <<shapeVars, regVars, colVars, log, call, current_column, upto,
                   values_needed, generators_needed_ids, column_dists, diag_dists,
                   diagonal, diagonal_length, gi, ci, mirrored>>

\* -------------------------------------------------------------------- Next
Next ==
    \/ \E mm \in Ms, slen \in SeriesLens, sdims \in SeriesDims,
          qlen \in {None} \cup {PyInt(l) : l \in QueryLens}, qdims \in QueryDims,
          buf \in BufferArgs : Construct(mm, slen, sdims, qlen, qdims, buf)
    \/ \E input_dim \in InputDims : add_generator(input_dim)
    \/ \E generator_ids \in SubscriptionLists : add_consumer(generator_ids)
    \/ \E start \in StartArgs, end \in UptoArgs : calculate_columns(start, end)
    \/ column_loop_test
    \/ column_query_generator
    \/ column_mask
    \/ column_notify_consumer
    \/ column_advance
    \/ \E partial \in PartialArgs : calculate_diagonals(partial)
    \/ diagonal_loop_test
    \/ diagonal_query_generator
    \/ diagonal_notify_consumer
    \/ diagonal_advance

Spec == Init /\ [][Next]_vars

\* ------------------------------------------------------------ _ratio_to_int
\* _ratio_to_int(ratio_or_result, maximum) called by itself: the arguments
\* and the way the call ended are kept in `call`, the result in values_needed
call_ratio_to_int(r, maximum) ==
    /\ pc \in {"new", "resolved"}
    /\ LET v == ratio_to_int(r, maximum)
       IN /\ pc' = "resolved"
          /\ call' = [NoCall EXCEPT !.kind = "ratio_to_int", !.upto = r, !.to = maximum,
                                    !.outcome = IF v.ok THEN "returned" ELSE v.err]
          /\ values_needed' = v.v
    /\ UNCHANGED <<shapeVars, regVars, colVars, diagVars, log, run, current_column, upto,
                   generators_needed_ids, column_dists, diag_dists, diagonal,
                   diagonal_length, gi, ci, mirrored>>

RatioNext == \E r \in RatioArgs, maximum \in Maxima : call_ratio_to_int(r, maximum)

RatioSpec == Init /\ [][RatioNext]_vars

TypeOK ==
    /\ pc \in {"new", "ctor_failed", "idle", "col_test", "col_gen", "col_cons",
               "diag_test", "diag_unit", "resolved"}

\* ============================================================== properties
\* What the collaborators are owed, written from the distances alone.
IsPoll(e) == e.op = "is_interrupted"
IsQuery(e) == e.op \in {"calc_column", "calc_diagonal"}
IsNotify(e) == e.op \in {"process_column", "process_diagonal"}

\* the events of unit u of the current call that pass Test, in order
UnitEvents(u, Test(_)) == SelectSeq(log, LAMBDA e : e.unit = u /\ Test(e))

\* the units the current call started
UnitsStarted == {log[i].unit : i \in {j \in DOMAIN log : IsPoll(log[j]) /\ log[j].arg = 0}}

\* the generator ids some consumer subscribed to, and the registry positions
\* of the generators they name
NeededIdSet ==
    UNION {{consumers[c][k] : k \in DOMAIN consumers[c]} : c \in DOMAIN consumers}

NeededGenerators == {PyIndex(id, Len(generators)) : id \in NeededIdSet}

\* notifications a consumer gets per unit
NotifiesPerUnit == IF call.kind = "diagonals" /\ self_join THEN 2 ELSE 1

Full(upto_arg) == upto_arg.type = "float" /\ upto_arg.num = upto_arg.den

\* distance (col, row) as a consumer is to see it in a column
ExpectedValue(g, col, row) ==
    IF /\ trivial_match_buffer >= 0
       /\ col - trivial_match_buffer <= row
       /\ row <= col + trivial_match_buffer
    THEN Inf
    ELSE Dist(g, col, row)

ExpectedColumn(ids, col) ==
    [k \in DOMAIN ids |->
        [r \in 1..num_query_subseq |->
            ExpectedValue(PyIndex(ids[k], Len(generators)), col, r - 1)]]

\* the deliveries of the columns a, a+1, ..., c-1
RECURSIVE ExpectedColumns(_, _)
ExpectedColumns(a, c) ==
    IF a >= c THEN <<>>
    ELSE [k \in DOMAIN consumers |->
            [who |-> k - 1, arg |-> a, val |-> ExpectedColumn(consumers[k], a)]]
         \o ExpectedColumns(a + 1, c)

ExpectedDiagonal(ids, d) ==
    [k \in DOMAIN ids |-> calc_diagonal(PyIndex(ids[k], Len(generators)), d)]

\* the number of values on the first i diagonals of the order
RECURSIVE CumLen(_)
CumLen(i) ==
    IF i <= 0 THEN 0
    ELSE CumLen(i - 1)
         + diag_length(num_query_subseq, num_series_subseq, diagonal_calc_order[i])

\* the deliveries of the diagonals at positions i, i+1, ... of the order, up
\* to the first position where `target` values have been computed
RECURSIVE ExpectedDiagonals(_, _)
ExpectedDiagonals(i, target) ==
    IF CumLen(i) >= target \/ i >= Len(diagonal_calc_order) THEN <<>>
    ELSE LET d == diagonal_calc_order[i + 1]
             one(k) == [who |-> k - 1, arg |-> d, val |-> ExpectedDiagonal(consumers[k], d)]
             two(k) == [who |-> k - 1, arg |-> 0 - d,
                        val |-> ExpectedDiagonal(consumers[k], d)]
             RECURSIVE each(_)
             each(k) == IF k > Len(consumers) THEN <<>>
                        ELSE (IF self_join THEN <<one(k), two(k)>> ELSE <<one(k)>>)
                             \o each(k + 1)
         IN each(1) \o ExpectedDiagonals(i + 1, target)

RECURSIVE ExpectedUnits(_, _)
ExpectedUnits(i, target) ==
    IF CumLen(i) >= target \/ i >= Len(diagonal_calc_order) THEN <<>>
    ELSE <<diagonal_calc_order[i + 1]>> \o ExpectedUnits(i + 1, target)

\* a run of calls that has just returned from its last call, which asked for
\* the furthest bound of the run
RunReturned(kind) ==
    /\ pc = "idle"
    /\ call.kind = kind
    /\ call.outcome = "returned"
    /\ run.kind = kind
    /\ call.to = run.to

\* C1: calls of calculate_columns that all omit start, the last with upto =
\* 1.0, none cancelled and none failing, together deliver every column
\* 0..num_series_subseq-1 to every consumer exactly once, in increasing order.
C1_Resumable ==
    (/\ RunReturned("columns")
     /\ Full(call.upto)
     /\ run.omitted /\ run.virgin /\ run.mode # "chained" /\ ~run.cancelled)
    => /\ run.units = [i \in 1..num_series_subseq |-> i - 1]
       /\ run.deliveries = ExpectedColumns(0, num_series_subseq)

\* a run of two or more calls without start covered the whole range
C1_Witness ==
    /\ RunReturned("columns")
    /\ Full(call.upto)
    /\ run.omitted /\ run.virgin /\ run.mode = "resumed" /\ ~run.cancelled
    /\ call.from >= 1
    /\ Len(run.units) = num_series_subseq
    /\ Len(consumers) >= 2

\* C2: calculate_columns(start=a, upto=b) followed by calculate_columns(
\* start=b, upto=c), a <= b <= c, delivers to every consumer what the single
\* call calculate_columns(start=a, upto=c) delivers: the columns a..c-1 in
\* order, each with the payload of that column.
C2_SplitEquivalence ==
    (/\ RunReturned("columns")
     /\ ~run.omitted /\ run.mode # "resumed" /\ ~run.cancelled)
    => run.deliveries = ExpectedColumns(run.first, run.to)

\* a range split in two, both halves non-empty
C2_Witness ==
    /\ RunReturned("columns")
    /\ ~run.omitted /\ run.mode = "chained" /\ ~run.cancelled
    /\ run.first < call.from /\ call.from < call.to
    /\ Len(consumers) >= 1
    /\ Len(run.deliveries) >= 2

\* C3: with trivial_match_buffer b >= 0, every row of every delivered column
\* c is +infinity at the positions max(0, c-b) .. min(c+b+1, num_query_subseq)-1.
C3_ColumnsMasked ==
    trivial_match_buffer >= 0 =>
        \A i \in DOMAIN log :
            log[i].op = "process_column" =>
                \A k \in DOMAIN log[i].val :
                    \A p \in Max2(0, log[i].arg - trivial_match_buffer) ..
                             (Min2(log[i].arg + trivial_match_buffer + 1,
                                   num_query_subseq) - 1) :
                        log[i].val[k][p + 1] = Inf

\* a column right of the first was delivered, masked in part
C3_Witness ==
    /\ trivial_match_buffer >= 0
    /\ \E i \in DOMAIN log :
         /\ log[i].op = "process_column"
         /\ log[i].arg >= 1
         /\ \E k \in DOMAIN log[i].val :
              /\ \E r \in DOMAIN log[i].val[k] : log[i].val[k][r] = Inf
              /\ \E r \in DOMAIN log[i].val[k] : log[i].val[k][r] # Inf

\* C4: in a self-join each consumer gets process_diagonal(k, V) and right
\* after it process_diagonal(-k, V) with the same V, the generators being
\* asked for k only and in one pass; with two series a consumer gets the
\* one delivery process_diagonal(k, V).
C4_Mirroring ==
    call.kind = "diagonals" =>
        \A u \in UnitsStarted :
            u < Len(diagonal_calc_order) =>
            LET k == diagonal_calc_order[u + 1]
                Q == UnitEvents(u, IsQuery)
                N == UnitEvents(u, IsNotify)
            IN /\ \A j \in DOMAIN Q : Q[j].arg = k
               /\ Len(Q) <= Cardinality(NeededIdSet)
               /\ IF self_join
                  THEN /\ \A j \in DOMAIN N :
                            IF j % 2 = 1 THEN N[j].arg = k
                            ELSE /\ N[j].arg = 0 - k
                                 /\ N[j].val = N[j - 1].val
                                 /\ N[j].who = N[j - 1].who
                       /\ u < diagonal_calc_list_next_index
                            => Len(N) = 2 * Len(consumers)
                  ELSE /\ \A j \in DOMAIN N : N[j].arg = k /\ N[j].who = j - 1
                       /\ u < diagonal_calc_list_next_index => Len(N) = Len(consumers)

\* a self-join delivered a diagonal off the main one and its mirror
C4_Witness ==
    /\ self_join
    /\ call.kind = "diagonals"
    /\ \E i \in DOMAIN log :
         /\ log[i].op = "process_diagonal"
         /\ log[i].arg < 0
         /\ log[i].val # <<>>
         /\ Len(log[i].val[1]) >= 1

\* C5: the budget is num_query_subseq * num_series_subseq with two series and
\* T*(T+1)/2, T = num_series_subseq - trivial_match_buffer - 1, in a
\* self-join, and a full run calculate_diagonals(1.0) that returns has
\* computed every offset of the order once, the counter ending at the budget.
C5_BudgetAndFullRun ==
    pc \notin {"new", "ctor_failed"} =>
        /\ diagonal_values_total =
              IF self_join
              THEN ((num_series_subseq - trivial_match_buffer - 1)
                    * (num_series_subseq - trivial_match_buffer)) \div 2
              ELSE num_query_subseq * num_series_subseq
        /\ (pc = "idle" /\ call.kind = "diagonals" /\ Full(call.upto)
            /\ call.outcome = "returned")
           => /\ diagonal_calc_list_next_index = Len(diagonal_calc_order)
              /\ diagonal_values_calculated = diagonal_values_total

\* C6: construction fails whenever a subsequence count is <= 0: no instance
\* exists whose num_series_subseq or num_query_subseq is not positive.
C6_RejectsEmpty ==
    pc \notin {"new", "ctor_failed"} =>
        /\ num_series_subseq > 0
        /\ num_query_subseq > 0

\* the events of unit u are the generator queries, then the notifications
QueriesFirst(u) ==
    \A i \in DOMAIN log :
        (log[i].unit = u /\ IsNotify(log[i])) =>
            \A j \in (i + 1)..Len(log) : log[j].unit = u => ~IsQuery(log[j])

\* a consumer is notified of unit u once every needed generator has answered
AllQueried(u) ==
    LET Q == UnitEvents(u, IsQuery)
    IN UnitEvents(u, IsNotify) # <<>> =>
          /\ {Q[j].who : j \in DOMAIN Q} = NeededGenerators
          /\ \A j \in DOMAIN Q : Q[j].val # <<>>

\* the consumers are notified of unit u in registration order, each with the
\* assembled unit
NotifiedInOrder(u) ==
    LET N == UnitEvents(u, IsNotify)
    IN \A j \in DOMAIN N :
         /\ N[j].who = (j - 1) \div NotifiesPerUnit
         /\ N[j].val = IF call.kind = "columns"
                       THEN ExpectedColumn(consumers[N[j].who + 1], u)
                       ELSE ExpectedDiagonal(consumers[N[j].who + 1],
                                             diagonal_calc_order[u + 1])

\* the cursor of the running call is past unit u, or the mark has reached it
\* in a call that began one past the mark
Advanced(u) ==
    IF call.kind = "columns"
    THEN \/ pc # "idle" /\ u < current_column
         \/ call.start = None /\ u <= last_column_calculated
    ELSE u < diagonal_calc_list_next_index

AdvancedWhenNotified(u) ==
    Advanced(u) => Len(UnitEvents(u, IsNotify)) = NotifiesPerUnit * Len(consumers)

QueriedInRegistryOrder(u) ==
    LET Q == UnitEvents(u, IsQuery)
    IN \A i, j \in DOMAIN Q : i < j => Q[i].who < Q[j].who

\* C7 as stated: in every unit the needed generators are queried in registry
\* order before any consumer is notified, the consumers are notified in
\* registration order with the assembled unit, and the cursor, mark and
\* counter advance after the last notification only.
C7_AsStated ==
    \A u \in UnitsStarted :
        /\ QueriesFirst(u)
        /\ AllQueried(u)
        /\ QueriedInRegistryOrder(u)
        /\ NotifiedInOrder(u)
        /\ AdvancedWhenNotified(u)

\* C7, amended: the same without an order among the generator queries: in
\* every unit all needed generators are queried before any consumer is
\* notified, the consumers are notified in registration order with the
\* assembled unit, and the cursor, mark and counter advance after the last
\* notification only.
C7_Sequential ==
    \A u \in UnitsStarted :
        /\ QueriesFirst(u)
        /\ AllQueried(u)
        /\ NotifiedInOrder(u)
        /\ AdvancedWhenNotified(u)

\* two consumers were notified of a unit computed by two generators, and the
\* cursor moved on
C7_Witness ==
    /\ Len(consumers) >= 2
    /\ Cardinality(NeededGenerators) >= 2
    /\ \E u \in UnitsStarted :
         /\ Advanced(u)
         /\ Len(UnitEvents(u, IsQuery)) >= 2
         /\ Len(UnitEvents(u, IsNotify)) >= 2

\* the call was let into its loop
Began == call.outcome \in {"running", "returned", "interrupted", "IndexError",
                           "CollaboratorError"}

\* a collaborator makes the running call fail in this step
Fails == call.outcome = "running" /\ call'.outcome = "CollaboratorError"

\* the failure propagates: the call ends there, and the mark, the cursor and
\* the counter stay as the last completed unit left them
FailureKeepsProgress ==
    Fails => /\ pc' = "idle"
             /\ UNCHANGED <<last_column_calculated, diagonal_calc_list_next_index,
                            diagonal_values_calculated>>

\* a call that retries a failed one
Retrial ==
    /\ call.retries.retry
    /\ Began
    /\ call.kind = "columns" => call.start = None

\* C8 as stated: a failure of a generator or a consumer in unit u ends the
\* call and leaves the mark (the cursor and the counter) as it was, and the
\* retried call (calculate_columns without start, calculate_diagonals)
\* begins at unit u.
C8_AsStated ==
    /\ [](Retrial => call.from = call.retries.unit)
    /\ [][FailureKeepsProgress]_vars

\* C8, amended: a failure in unit u ends the call and leaves the mark (the
\* cursor and the counter) as it was; a retried calculate_diagonals begins at
\* unit u, and so does a retried calculate_columns without start when the
\* failed call had been given no start either.
C8_RetryResumes ==
    /\ []((Retrial /\ (call.kind = "columns" => call.retries.omitted))
          => call.from = call.retries.unit)
    /\ [][FailureKeepsProgress]_vars

\* a call without start failed past its first unit and was retried
C8_Witness ==
    /\ Retrial
    /\ call.kind = "columns"
    /\ call.retries.omitted
    /\ call.retries.unit >= 1
    /\ call.from = call.retries.unit
    /\ pc = "col_gen"

\* the signal is polled once before each unit, each unit's events following
\* its poll
PolledOncePerUnit ==
    /\ \A i \in DOMAIN log :
          IsPoll(log[i]) =>
              \A j \in DOMAIN log : (IsPoll(log[j]) /\ log[i].unit = log[j].unit) => i = j
    /\ \A i \in DOMAIN log :
          ~IsPoll(log[i]) =>
              \E j \in 1..(i - 1) :
                  /\ IsPoll(log[j]) /\ log[j].arg = 0 /\ log[j].unit = log[i].unit
                  /\ \A k \in (j + 1)..i : ~IsPoll(log[k])

\* the poll that reports an abort is the last thing the call does
NothingAfterAbort ==
    \A i \in DOMAIN log :
        (IsPoll(log[i]) /\ log[i].arg = 1)
        => i = Len(log) /\ pc = "idle" /\ call.outcome = "interrupted"

\* a call that returns or is cancelled has delivered every unit it started,
\* and the mark, the cursor and the counter count those units
StartedIsDelivered ==
    (pc = "idle" /\ call.outcome \in {"returned", "interrupted"}) =>
        /\ \A u \in UnitsStarted :
              Len(UnitEvents(u, IsNotify)) = NotifiesPerUnit * Len(consumers)
        /\ (call.kind = "columns" /\ call.start = None /\ UnitsStarted # {})
              => last_column_calculated + 1 = call.unit
        /\ call.kind = "diagonals" =>
              /\ diagonal_calc_list_next_index = call.from + Cardinality(UnitsStarted)
              /\ diagonal_values_calculated = CumLen(diagonal_calc_list_next_index)

\* a run with a cancelled call in it, resumed by calls without start, has
\* delivered what one call from its first unit to its bound delivers
ResumedAsOne ==
    IF run.kind = "columns"
    THEN /\ run.deliveries = ExpectedColumns(run.first, run.to)
         /\ run.units = [i \in 1..(run.to - run.first) |-> run.first + i - 1]
    ELSE /\ run.deliveries = ExpectedDiagonals(run.first, run.to)
         /\ run.units = ExpectedUnits(run.first, run.to)

CancelledRunReturned ==
    /\ RunReturned(run.kind)
    /\ run.cancelled
    /\ run.mode = "resumed"

\* C9 as stated: the signal is polled once before each unit; after it reports
\* an abort the call makes no query and no notification; every unit started
\* is delivered to all consumers and the mark and the counter count such
\* units only; a cancelled call followed by a resumed call delivers the units
\* of one uninterrupted call.
C9_AsStated ==
    /\ PolledOncePerUnit
    /\ NothingAfterAbort
    /\ StartedIsDelivered
    /\ CancelledRunReturned => ResumedAsOne

\* C9, amended: as stated, the last part for calculate_diagonals and for a
\* cancelled calculate_columns that was given no start.
C9_Cancellation ==
    /\ PolledOncePerUnit
    /\ NothingAfterAbort
    /\ StartedIsDelivered
    /\ (CancelledRunReturned /\ run.omitted) => ResumedAsOne

\* a call without start was cancelled after a unit and before another, and the
\* resumed call delivered the rest
C9_Witness ==
    /\ CancelledRunReturned
    /\ run.omitted
    /\ run.kind = "columns"
    /\ call.from >= run.first + 1
    /\ Len(run.units) > call.from - run.first
    /\ Len(consumers) >= 1

InvalidSpec(a) ==
    \/ a.type \notin {"int", "float"}
    \/ a.type = "float" /\ (a.num < 0 \/ a.num > a.den)

\* calculate_columns or calculate_diagonals is called in this step
Called == pc = "idle" /\ call'.kind # "none"

\* C10: a call whose start, upto or partial is of an invalid type or a
\* fraction outside [0, 1] fails at once: no generator is queried, no
\* consumer notified, and the mark, the cursor and the counter are unchanged.
C10_ErrorsBeforeWork ==
    [][(/\ Called
        /\ \/ call'.start # None /\ InvalidSpec(call'.start)
           \/ InvalidSpec(call'.upto))
       => /\ pc' = "idle"
          /\ call'.outcome \in {"ValueError", "RuntimeError", "NegativeDimensions"}
          /\ log' = <<>>
          /\ UNCHANGED <<last_column_calculated, diagonal_calc_list_next_index,
                         diagonal_values_calculated>>]_vars

\* a fraction above 1 was refused after columns had been computed
C10_Witness ==
    /\ pc = "idle"
    /\ call.kind = "columns"
    /\ InvalidSpec(call.upto)
    /\ call.outcome = "ValueError"
    /\ log = <<>>
    /\ last_column_calculated >= 1
    /\ Len(consumers) >= 1

\* the offsets a traversal by diagonals has to visit: with two series the
\* diagonals -(num_query_subseq - 1) .. num_series_subseq - 1, in a self-join
\* the diagonals right of the masked band
FirstCandidate ==
    IF self_join THEN trivial_match_buffer + 1 ELSE 0 - num_query_subseq + 1

NumCandidates == Max2(num_series_subseq - FirstCandidate, 0)

\* random.shuffle(list(range(n)), random.Random(0).random) as CPython
\* computes it, for n = 0 .. 7
ShuffledRange ==
    << <<>>, <<0>>, <<0, 1>>, <<0, 1, 2>>, <<1, 0, 2, 3>>, <<2, 0, 1, 3, 4>>,
       <<2, 4, 0, 1, 3, 5>>, <<6, 0, 3, 1, 2, 4, 5>> >>

\* the order every instance of these shapes, m and buffer visits the diagonals in
ReferenceOrder ==
    [i \in 1..NumCandidates |-> FirstCandidate + ShuffledRange[NumCandidates + 1][i]]

Constructed == pc \notin {"new", "ctor_failed"}

\* the order holds each candidate offset once, and is the order of the shapes
OrderIsReferencePermutation ==
    Constructed =>
        /\ Len(diagonal_calc_order) = NumCandidates
        /\ \A k \in FirstCandidate..(num_series_subseq - 1) :
              Cardinality({i \in DOMAIN diagonal_calc_order :
                              diagonal_calc_order[i] = k}) = 1
        /\ diagonal_calc_order = ReferenceOrder

\* the diagonals the calls of a run computed are the ones that follow in the
\* order the position the run began at
RunFollowsOrder ==
    run.kind = "diagonals" =>
        /\ run.first + Len(run.units) <= NumCandidates
        /\ run.units = [i \in 1..Len(run.units) |-> ReferenceOrder[run.first + i]]
        /\ run.virgin => run.first = 0

\* the cursor moves by one position, past the diagonal just computed
CursorFollowsOrder ==
    diagonal_calc_list_next_index' # diagonal_calc_list_next_index =>
        /\ diagonal_calc_list_next_index' = diagonal_calc_list_next_index + 1
        /\ diagonal_calc_list_next_index < NumCandidates
        /\ LET Q == UnitEvents(diagonal_calc_list_next_index, IsQuery)
           IN \A j \in DOMAIN Q :
                Q[j].arg = ReferenceOrder[diagonal_calc_list_next_index + 1]
        /\ run'.units = Append(run.units, ReferenceOrder[diagonal_calc_list_next_index + 1])

\* C11: the order the diagonals are visited in is a permutation of the
\* candidate offsets fixed at construction, the same for every instance of
\* the same shapes, m and buffer, and no step changes it; the k-th diagonal
\* computed, over whatever sequence of partial calculate_diagonals calls, is
\* the k-th of that order, so the diagonals computed are always a prefix of
\* what one full run computes.
C11_ReproducibleOrder ==
    /\ [](OrderIsReferencePermutation /\ RunFollowsOrder)
    /\ [][(Constructed => diagonal_calc_order' = diagonal_calc_order)
          /\ CursorFollowsOrder]_vars

\* two partial calls computed three diagonals or more of an order that is
\* not the ascending one
C11_Witness ==
    /\ pc = "idle"
    /\ call.kind = "diagonals"
    /\ call.outcome = "returned"
    /\ run.kind = "diagonals" /\ run.virgin /\ run.mode = "resumed"
    /\ call.from >= 1
    /\ Len(run.units) >= 3
    /\ run.units[1] > run.units[2]
    /\ Len(consumers) >= 1
    /\ Len(generators) >= 2

Abs(k) == IF k < 0 THEN 0 - k ELSE k

\* C12: in a self-join with buffer b no consumer is ever told of a diagonal
\* k with |k| <= b: no process_diagonal(k, ...) of the current call, and none
\* recorded for the run, has its offset inside the masked band.
C12_NoTrivialDiagonals ==
    self_join =>
        /\ \A i \in DOMAIN log :
              log[i].op = "process_diagonal" => Abs(log[i].arg) > trivial_match_buffer
        /\ run.kind = "diagonals" =>
              \A i \in DOMAIN run.deliveries :
                  Abs(run.deliveries[i].arg) > trivial_match_buffer

\* a self-join with a band of three diagonals delivered a diagonal outside
\* it and its mirror
C12_Witness ==
    /\ self_join
    /\ trivial_match_buffer >= 1
    /\ call.kind = "diagonals"
    /\ \E i, j \in DOMAIN log :
         /\ log[i].op = "process_diagonal" /\ log[i].arg > trivial_match_buffer
         /\ log[j].op = "process_diagonal" /\ log[j].arg < 0 - trivial_match_buffer
         /\ Len(log[j].val) >= 1

\* a column has been delivered to every consumer and is completed in this step
CompletesColumn == pc = "col_cons" /\ pc' = "col_test"

\* C13: the mark of the rightmost column completed never decreases: a step
\* that completes column c leaves it at the greater of c and the mark before,
\* also when c is a column below the mark delivered again by a call with an
\* explicit start, and no other step changes it.
C13_MarkMonotone ==
    [][/\ last_column_calculated' >= last_column_calculated
       /\ CompletesColumn =>
             last_column_calculated' = IF current_column > last_column_calculated
                                       THEN current_column
                                       ELSE last_column_calculated
       /\ last_column_calculated' # last_column_calculated => CompletesColumn]_vars

\* a call with an explicit start has delivered again, and completed, a
\* column below the mark
C13_Witness ==
    /\ pc = "col_test"
    /\ call.kind = "columns"
    /\ call.start # None
    /\ current_column > call.from
    /\ current_column - 1 < last_column_calculated
    /\ \E i \in DOMAIN log :
         /\ log[i].op = "process_column"
         /\ log[i].arg = current_column - 1

\* C14: in every state the counter of values computed is the sum of the
\* lengths of the diagonals at the positions of the order below the cursor;
\* the counter never decreases and never exceeds the total budget, and the
\* total budget never changes after construction.
C14_CounterAccounting ==
    /\ [](Constructed =>
            /\ diagonal_calc_list_next_index <= Len(diagonal_calc_order)
            /\ diagonal_values_calculated = CumLen(diagonal_calc_list_next_index)
            /\ diagonal_values_calculated <= diagonal_values_total)
    /\ [][/\ diagonal_values_calculated' >= diagonal_values_calculated
           /\ Constructed => diagonal_values_total' = diagonal_values_total]_vars

\* the resolver has been called on call.upto with the maximum call.to
Resolved == pc = "resolved" /\ call.kind = "ratio_to_int"

\* C15: the resolver returns ceil(f * M) for every fraction f in [0, 1] and
\* every maximum M (resolve(0.5, 10) = 5, resolve(0.34, 10) = 4,
\* resolve(0.0, M) = 0, resolve(1.0, M) = M), returns an int unchanged
\* whatever M is, and fails on a fraction outside [0, 1] and on a value of
\* any other type.
C15_CeilingOfFraction ==
    Resolved =>
        LET r == call.upto
            M == call.to
        IN IF r.type = "float" /\ 0 <= r.num /\ r.num <= r.den
           THEN /\ call.outcome = "returned"
                /\ values_needed * r.den >= r.num * M
                /\ (values_needed - 1) * r.den < r.num * M
           ELSE IF r.type = "int"
           THEN call.outcome = "returned" /\ values_needed = r.num
           ELSE call.outcome \in {"ValueError", "RuntimeError"}

\* the number of queries to generator g among the queries Q of a unit
QueriesOf(g, Q) == Cardinality({j \in DOMAIN Q : Q[j].who = g})

\* the subscribed ids that name generator g
IdsNaming(g) ==
    {id \in NeededIdSet : InRange(id, Len(generators)) /\ PyIndex(id, Len(generators)) = g}

\* the queries of unit u are over: a consumer has been notified of it
Assembled(u) == UnitEvents(u, IsNotify) # <<>>

\* C16 as stated: in every unit each generator some consumer subscribed to
\* is queried exactly once, however many consumers and however many times
\* one consumer subscribed to it, and a generator no consumer subscribed to
\* is never queried.
C16_AsStated ==
    \A u \in UnitsStarted :
        LET Q == UnitEvents(u, IsQuery)
            done == Assembled(u)
        IN \A g \in 0..(Len(generators) - 1) :
             LET n == QueriesOf(g, Q)
                 named == IdsNaming(g) # {}
             IN /\ n <= IF named THEN 1 ELSE 0
                /\ (done /\ named) => n = 1

\* C16, amended: in every unit one query is made for each distinct id some
\* consumer subscribed with, however many consumers and however many times
\* one consumer gave that id: a generator is queried once for each distinct
\* id that names it (a negative id names a generator from the end of the
\* registry), and a generator no id names is never queried.
C16_OncePerId ==
    [](\A u \in UnitsStarted :
         LET Q == UnitEvents(u, IsQuery)
             done == Assembled(u)
         IN \A g \in 0..(Len(generators) - 1) :
              LET n == QueriesOf(g, Q)
                  ids == Cardinality(IdsNaming(g))
              IN /\ n <= ids
                 /\ done => n = ids)

\* two consumers gave the same ids, two of which name one generator: it was
\* queried twice in a unit both consumers were notified of, another once
C16_Witness ==
    /\ Len(consumers) >= 2
    /\ \E u \in UnitsStarted :
         /\ Len(UnitEvents(u, IsNotify)) >= 2
         /\ \E g, h \in 0..(Len(generators) - 1) :
              /\ QueriesOf(g, UnitEvents(u, IsQuery)) = 2
              /\ QueriesOf(h, UnitEvents(u, IsQuery)) = 1

\* a generator or a consumer is registered in this step
Registers == regVars' # regVars

\* a step of calculate_columns, and a step of calculate_diagonals: the call
\* itself and every step of its loop
ColumnsStep == call'.kind = "columns"
DiagonalsStep == call'.kind = "diagonals"

\* C17: add_generator and add_consumer change neither the column mark nor
\* the diagonal order, cursor and counter; calculate_columns never changes
\* the diagonal cursor and counter; calculate_diagonals never changes the
\* column mark; and after construction no step changes the order, the total
\* budget, the subsequence counts or trivial_match_buffer.
C17_Frames ==
    [][/\ Registers =>
             /\ pc' = pc
             /\ UNCHANGED <<last_column_calculated, diagonal_calc_order,
                            diagonal_calc_list_next_index, diagonal_values_calculated>>
       /\ ColumnsStep =>
             UNCHANGED <<diagonal_calc_list_next_index, diagonal_values_calculated>>
       /\ DiagonalsStep => UNCHANGED last_column_calculated
       /\ Constructed =>
             UNCHANGED <<diagonal_calc_order, diagonal_values_total, num_series_subseq,
                         num_query_subseq, trivial_match_buffer>>]_vars

\* columns and diagonals had been computed when a consumer was registered
C17_Witness ==
    /\ pc = "idle"
    /\ call.kind = "none"
    /\ last_column_calculated >= 1
    /\ diagonal_calc_list_next_index >= 1
    /\ diagonal_values_calculated >= 1
    /\ Len(generators) >= 1
    /\ Len(consumers) >= 1

\* C18: over the calls of calculate_diagonals, in a self-join with any
\* buffer in -1 .. num_series_subseq - 1 and with two series, no consumer is
\* told of the same signed offset twice: no two process_diagonal of a call,
\* and no two delivered in a run of calls, have the same consumer and offset.
C18_NoDuplicateDiagonal ==
    /\ \A i, j \in DOMAIN log :
          (/\ i < j
           /\ log[i].op = "process_diagonal" /\ log[j].op = "process_diagonal"
           /\ log[i].who = log[j].who)
          => log[i].arg # log[j].arg
    /\ run.kind = "diagonals" =>
          \A i, j \in DOMAIN run.deliveries :
              (i < j /\ run.deliveries[i].who = run.deliveries[j].who)
              => run.deliveries[i].arg # run.deliveries[j].arg

\* the call read the order at a position past its end
IndexedPastEnd ==
    /\ call.kind = "diagonals"
    /\ call.outcome = "IndexError"
    /\ call.unit >= Len(diagonal_calc_order)

\* C19: for every progress specification calculate_diagonals accepts, a
\* fraction in [0, 1] or an int, an int above the total budget included, the
\* call ends normally: the cursor stays within the order and the order is
\* never read at a position past its end.
C19_CursorInBounds ==
    Constructed =>
        /\ diagonal_calc_list_next_index <= Len(diagonal_calc_order)
        /\ ~IndexedPastEnd

\* the positions of a delivered column c that the mask leaves alone
OutsideWindow(c) ==
    {p \in 0..(num_query_subseq - 1) :
        trivial_match_buffer >= 0 =>
            (p < Max2(0, c - trivial_match_buffer) \/ p >= c + trivial_match_buffer + 1)}

\* C20: in every delivery process_column(c, values), each position outside
\* the window [max(0, c-b), c+b+1) of each row (every position with two
\* series) holds the value the generator of that row returned for column c
\* in this unit: neither an infinity nor a value of an earlier column is
\* left in the buffer that the columns share.
C20_MaskOnlyWindow ==
    [](\A i \in DOMAIN log :
           log[i].op = "process_column" =>
               LET c == log[i].arg
                   ids == consumers[log[i].who + 1]
               IN /\ Len(log[i].val) = Len(ids)
                  /\ \A k \in DOMAIN ids :
                        LET g == PyIndex(ids[k], Len(generators))
                            answers == {j \in 1..(i - 1) :
                                           /\ log[j].op = "calc_column"
                                           /\ log[j].unit = c
                                           /\ log[j].who = g}
                        IN /\ answers # {}
                           /\ Len(log[i].val[k]) = num_query_subseq
                           /\ \A j \in answers, p \in OutsideWindow(c) :
                                 /\ log[i].val[k][p + 1] = log[j].val[1][p + 1]
                                 /\ log[i].val[k][p + 1] = Dist(g, c, p))

\* a call delivered a column with a position outside its window that was
\* inside the window of the column delivered before it
C20_Witness ==
    /\ trivial_match_buffer >= 0
    /\ \E i, j \in DOMAIN log :
         /\ i < j
         /\ log[i].op = "process_column" /\ log[j].op = "process_column"
         /\ log[j].arg = log[i].arg + 1
         /\ \E p \in OutsideWindow(log[j].arg) :
              /\ p \notin OutsideWindow(log[i].arg)
              /\ log[i].val[1][p + 1] = Inf
              /\ log[j].val[1][p + 1] # Inf
====
